---- MODULE Spec2Model ----
(***************************************************************************)
(* The category-driven discovery-and-fetch pipeline of                     *)
(* scripts/download_minecraft_wiki_renders.py: the Category Walker         *)
(* (get_image_urls_from_category), the File-Page Resolver                  *)
(* (get_full_image_url), the Filename Sanitizer (sanitize_filename), the   *)
(* Downloader (download_image) and the Run Orchestrator (main).            *)
(*                                                                         *)
(* The wiki is the environment: what it serves for each URL is part of     *)
(* the state (category, filePage, image).  The output directory is disk.   *)
(* Strings that the program takes apart (wiki file titles) are sequences   *)
(* of one-character strings; URLs and hrefs are records.                   *)
(***************************************************************************)
EXTENDS Integers, Sequences, FiniteSets, TLC

VARIABLES
    category,       \* the wiki: what each category page URL serves
    filePage,       \* the wiki: what each file page URL serves
    image,          \* the wiki: how the request for each image URL ends
    disk,           \* OUTPUT_DIR: filename -> content of the file (NoFile if absent)
    run,            \* number of the invocation of the script (1 = first run)
    pc,             \* position of the process
    current_url,    \* get_image_urls_from_category: current_url
    all_file_pages, \* get_image_urls_from_category: all_file_pages (url -> copies)
    page_count,     \* get_image_urls_from_category: page_count
    file_pages,     \* main: file_pages
    i,              \* main: index of the item of file_pages being processed
    image_url,      \* main: image_url of the item being processed
    downloaded,     \* main: downloaded
    skipped,        \* main: skipped
    failed,         \* main: failed
    fetched,        \* history: category page URLs requested by the walker, in order
    found,          \* history: urls of the file links on the pages the walker got
    resolveCalls,   \* history: file page url -> calls of get_full_image_url in this run
    downloadCalls,  \* history: file page url -> calls of download_image in this run
    lastItem,       \* history: what happened to the item processed last
    firstRun,       \* history: the directory, counters and items at the end of run 1
    hist,           \* history: directory creation, requests, sleeps, opens, truncations
    call            \* a function called on its own: its argument and its result

vars == <<category, filePage, image, disk, run, pc, current_url, all_file_pages,
          page_count, file_pages, i, image_url, downloaded, skipped, failed,
          fetched, found, resolveCalls, downloadCalls, lastItem, firstRun,
          hist, call>>

upstream == <<category, filePage, image>>
walkerVars == <<current_url, all_file_pages, page_count>>
tally == <<downloaded, skipped, failed>>
walkLog == <<fetched, found>>

Min(a, b) == IF a < b THEN a ELSE b

(***************************************************************************)
(* Bounds of the model.                                                    *)
(***************************************************************************)
NPages == 3      \* category pages of the wiki, besides its root page
MaxLinks == 2    \* anchors matched by one selector on one category page
MaxDup == 2      \* copies of one url told apart in all_file_pages
MaxLog == 4      \* requests told apart in page_count and fetched
MaxRuns == 2     \* invocations of the script in a row
MaxAnchors == 2  \* anchors inside one container of a file page

(***************************************************************************)
(* URLs and hrefs.  An href is a record whose host is "" when the href is  *)
(* relative; urljoin resolves it against a base host.                      *)
(***************************************************************************)
BASE_URL == "https://minecraft.wiki"

FilePrefix == "/w/File:"
OtherPrefix == "/w/"

urljoin(base, href) == [href EXCEPT !.host = IF href.host = "" THEN base ELSE href.host]

\* Category page URLs: page 0 is the root of the wiki (the URL urljoin gives
\* for an empty href), page 1 is CATEGORY_URL.
CatHref(host, n) == [host |-> host, page |-> n]
CATEGORY_URL == CatHref(BASE_URL, 1)
None == [host |-> "None", page |-> 0]
CatURLs == {CatHref(BASE_URL, n) : n \in 0..NPages}
\* hrefs of a "next page" anchor: relative and absolute hrefs of the category
\* pages, and the empty href ("" is what a.get("href", "") gives for an
\* anchor without href).
EmptyHref == CatHref("", 0)
NextHrefs == {CatHref("", n) : n \in 1..NPages} \cup {CatHref(BASE_URL, 1), EmptyHref}

(***************************************************************************)
(* Wiki file titles, as sequences of characters.                           *)
(***************************************************************************)
Titles == { <<"a">>, <<":">>, <<"%", "3", "A">> }

LinkHref(host, prefix, title) == [host |-> host, prefix |-> prefix, title |-> title]
FileURL(title) == LinkHref(BASE_URL, FilePrefix, title)
FileURLs == {FileURL(t) : t \in Titles}
\* hrefs of the anchors of a category page
LinkHrefs == {LinkHref("", FilePrefix, <<"a">>), LinkHref(BASE_URL, FilePrefix, <<"a">>),
              LinkHref("", FilePrefix, <<":">>), LinkHref("", OtherPrefix, <<"a">>)}
\* "/w/File:" in href
IsFileLink(href) == href.prefix = FilePrefix

SeqsUpTo(S, n) == UNION {[1..k -> S] : k \in 0..n}

(***************************************************************************)
(* get_page on a category page: the parsed document, or a failure.         *)
(* A page served is [ok, hasGallery, gallery, items, next]:                *)
(*   ok         the request succeeded (get_page returns a document)        *)
(*   hasGallery the div mw-category-media exists (by class, else by id)    *)
(*   gallery    hrefs of its anchors that have an href, in document order  *)
(*   items      hrefs of the anchors matched by ".gallerybox .thumb a"     *)
(*   hasNext    an anchor whose text contains "next page" exists           *)
(*   next       the href of the first such anchor (a.get("href", ""))     *)
(* category[u].stable says whether the wiki serves the same body at every  *)
(* request; if not, only the "next page" anchor is fixed.                  *)
(***************************************************************************)
PageBody(ok, hasGallery, gallery, items) ==
    [ok |-> ok, hasGallery |-> hasGallery, gallery |-> gallery, items |-> items]
\* the bodies of a page that changes: a failure, or a document in which the
\* two selectors match at most MaxLinks anchors
PageBodies ==
    {PageBody(FALSE, FALSE, <<>>, <<>>)}
    \cup {b \in {PageBody(TRUE, hg, g, it) :
                    hg \in BOOLEAN, g \in SeqsUpTo(LinkHrefs, MaxLinks),
                    it \in SeqsUpTo(LinkHrefs, MaxLinks)} :
             /\ Len(b.gallery) + Len(b.items) <= MaxLinks
             /\ b.hasGallery \/ b.gallery = <<>>}

Served(url) ==
    IF category[url].stable
    THEN {category[url]}
    ELSE {[category[url] EXCEPT !.ok = b.ok, !.hasGallery = b.hasGallery,
                                !.gallery = b.gallery, !.items = b.items] :
            b \in PageBodies}

(***************************************************************************)
(* get_image_urls_from_category, lines 55-71: the two extraction loops.    *)
(***************************************************************************)
NoCopies == [u \in FileURLs |-> 0]

\* all_file_pages.append(full_url)
AppendURL(afp, url) == [afp EXCEPT ![url] = Min(@ + 1, MaxDup)]

\* lines 56-62: every file link of the gallery container is appended
RECURSIVE GalleryLoop(_, _)
GalleryLoop(afp, links) ==
    IF links = <<>> THEN afp
    ELSE LET href == Head(links)
             next == IF IsFileLink(href) THEN AppendURL(afp, urljoin(BASE_URL, href))
                     ELSE afp
         IN GalleryLoop(next, Tail(links))

\* lines 65-71: a file link of a gallery item is appended unless already there
RECURSIVE ItemsLoop(_, _)
ItemsLoop(afp, links) ==
    IF links = <<>> THEN afp
    ELSE LET href == Head(links)
             full_url == urljoin(BASE_URL, href)
             next == IF IsFileLink(href) /\ afp[full_url] = 0
                     THEN AppendURL(afp, full_url) ELSE afp
         IN ItemsLoop(next, Tail(links))

\* (the gallery container alone)
ExtractLinksGalleryOnly(afp, page) ==
    IF page.hasGallery THEN GalleryLoop(afp, page.gallery) ELSE afp

\* lines 55-71: both selectors on one page
ExtractLinks(afp, page) ==
    ItemsLoop(IF page.hasGallery THEN GalleryLoop(afp, page.gallery) ELSE afp, page.items)

\* lines 74-78: the first "next page" anchor, resolved
NextLink(page) == IF page.hasNext THEN urljoin(BASE_URL, page.next) ELSE None

\* line 86: list(set(all_file_pages)); the order of the list is the iteration
\* order of a set of strings, which is not fixed by the program.
\* (KeepDuplicates: list(all_file_pages), in any order.)
Orderings(S) ==
    {s \in [1..Cardinality(S) -> S] : \A a, b \in DOMAIN s : a # b => s[a] # s[b]}
Count(s, x) == Cardinality({k \in DOMAIN s : s[k] = x})
Total(afp) == LET RECURSIVE Sum(_)
                  Sum(S) == IF S = {} THEN 0
                            ELSE LET u == CHOOSE u \in S : TRUE IN afp[u] + Sum(S \ {u})
              IN Sum(DOMAIN afp)
KeepDuplicates(afp) ==
    {s \in [1..Total(afp) -> {u \in FileURLs : afp[u] > 0}] :
        \A u \in FileURLs : Count(s, u) = afp[u]}
RemoveDuplicates(afp) == Orderings({u \in FileURLs : afp[u] > 0})

(***************************************************************************)
(* sanitize_filename, lines 127-137.                                       *)
(***************************************************************************)
HexDigits == {"0", "1", "2", "3", "4", "5", "6", "7", "8", "9",
              "A", "B", "C", "D", "E", "F", "a", "b", "c", "d", "e", "f"}
HexVal(c) ==
    CASE c = "0" -> 0 [] c = "1" -> 1 [] c = "2" -> 2 [] c = "3" -> 3 [] c = "4" -> 4
      [] c = "5" -> 5 [] c = "6" -> 6 [] c = "7" -> 7 [] c = "8" -> 8 [] c = "9" -> 9
      [] c \in {"A", "a"} -> 10 [] c \in {"B", "b"} -> 11 [] c \in {"C", "c"} -> 12
      [] c \in {"D", "d"} -> 13 [] c \in {"E", "e"} -> 14 [] c \in {"F", "f"} -> 15

\* The character U+FFFD that unquote puts for a byte that is not valid UTF-8.
ReplacementChar == "\\uFFFD"
\* chr(code) for the ASCII codes the model's titles can escape; a byte
\* 0x80..0xBF on its own is not valid UTF-8 and decodes to U+FFFD.
Chr(code) ==
    CASE code = 34 -> "\"" [] code = 37 -> "%" [] code = 42 -> "*" [] code = 46 -> "."
      [] code = 47 -> "/" [] code = 51 -> "3" [] code = 58 -> ":" [] code = 60 -> "<"
      [] code = 62 -> ">" [] code = 63 -> "?" [] code = 92 -> "\\" [] code = 95 -> "_"
      [] code = 97 -> "a" [] code = 124 -> "|"
      [] code \in 128..191 -> ReplacementChar
Decodable(code) ==
    code \in {34, 37, 42, 46, 47, 51, 58, 60, 62, 63, 92, 95, 97, 124} \cup (128..191)

\* position k of s begins an escape %XX
EscapeAt(s, k) ==
    /\ k + 2 <= Len(s)
    /\ s[k] = "%"
    /\ s[k + 1] \in HexDigits /\ s[k + 2] \in HexDigits
    /\ Decodable(16 * HexVal(s[k + 1]) + HexVal(s[k + 2]))

\* a place near the middle of s (of four characters or more) where no escape
\* is cut in two; escapes do not overlap, a hex digit is not "%"
CutAt(s) ==
    LET h == Len(s) \div 2
    IN IF EscapeAt(s, h) THEN h - 1
       ELSE IF EscapeAt(s, h - 1) THEN h + 1
       ELSE h

\* urllib.parse.unquote: every %XX with two hex digits becomes the character
\* of that byte; a "%" not followed by two hex digits is kept.  (Escapes of
\* bytes outside Decodable do not occur in the titles of the model.)  The
\* halves of s are decoded on their own, so that long titles stay computable.
RECURSIVE unquote(_)
unquote(s) ==
    IF Len(s) <= 3
    THEN IF EscapeAt(s, 1) THEN <<Chr(16 * HexVal(s[2]) + HexVal(s[3]))>> ELSE s
    ELSE unquote(SubSeq(s, 1, CutAt(s))) \o unquote(SubSeq(s, CutAt(s) + 1, Len(s)))

\* re.sub(r'[<>:"/\\|?*]', '_', filename)
BadChars == {"<", ">", ":", "\"", "/", "\\", "|", "?", "*"}
ReplaceBad(s) == [k \in DOMAIN s |-> IF s[k] \in BadChars THEN "_" ELSE s[k]]

\* os.path.splitext: the extension starts at the last dot, unless only dots
\* come before it (no separator is left in the name after ReplaceBad).
SplitAt(s) ==
    LET dots == {k \in DOMAIN s : s[k] = "." /\ \E j \in 1..(k - 1) : s[j] # "."}
    IN IF dots = {} THEN Len(s) + 1 ELSE CHOOSE k \in dots : \A j \in dots : j <= k
splitext(s) == <<SubSeq(s, 1, SplitAt(s) - 1), SubSeq(s, SplitAt(s), Len(s))>>

MaxFilenameLen == 200
KeptNameLenWhole == MaxFilenameLen
KeptNameLen == 195

\* (the replacement before the decoding)
sanitize_filename_replace_first(filename) ==
    LET replaced == unquote(ReplaceBad(filename))
    IN IF Len(replaced) > MaxFilenameLen
       THEN SubSeq(splitext(replaced)[1], 1, Min(KeptNameLen, Len(splitext(replaced)[1])))
                \o splitext(replaced)[2]
       ELSE replaced

sanitize_filename(filename) ==
    LET replaced == ReplaceBad(unquote(filename))
    IN IF Len(replaced) > MaxFilenameLen
       THEN SubSeq(splitext(replaced)[1], 1, Min(KeptNameLen, Len(splitext(replaced)[1])))
                \o splitext(replaced)[2]
       ELSE replaced

\* os.path.exists(output_path), line 168
path_exists_never(dir, output_path) == FALSE
path_exists_complete(dir, output_path) == dir[output_path].state = "complete"
path_exists(dir, output_path) == dir[output_path].state # "absent"

\* main, lines 163-165: the destination of a file page
\* (file_page.split("/w/File:")[-1] is the title of the url).
OutputPath(file_page) == sanitize_filename(file_page.title)
Filenames == {OutputPath(u) : u \in FileURLs}

(***************************************************************************)
(* File pages.  A file page served is                                      *)
(*   ok               the request succeeded                                *)
(*   hasFullImageLink the div of class fullImageLink exists                *)
(*   fullImageLink    its anchors, in document order                       *)
(*   hasFullMedia     the div of class fullMedia exists                    *)
(*   fullMedia        its anchors, in document order                       *)
(* and an anchor is [hasHref, href]: href is the value of its href         *)
(* attribute, which may be the empty string (EmptyImageHref).              *)
(***************************************************************************)
ImageHref(host, title) == [host |-> host, image |-> title]
EmptyImageHref == ImageHref("", <<>>)
NoImage == [host |-> "None", image |-> <<>>]
ImageURLs == {ImageHref(BASE_URL, t) : t \in Titles \cup {<<>>}}

Anchor(href) == [hasHref |-> TRUE, href |-> href]
NoHrefAnchor == [hasHref |-> FALSE, href |-> EmptyImageHref]
Anchors == {NoHrefAnchor, Anchor(EmptyImageHref), Anchor(ImageHref("", <<"a">>)),
            Anchor(ImageHref(BASE_URL, <<":">>))}

FilePage(ok, hasP, p, hasS, s) ==
    [ok |-> ok, hasFullImageLink |-> hasP, fullImageLink |-> p,
     hasFullMedia |-> hasS, fullMedia |-> s]
FilePages ==
    {FilePage(ok, hasP, p, hasS, s) :
        ok \in BOOLEAN, hasP \in BOOLEAN, p \in SeqsUpTo(Anchors, MaxAnchors),
        hasS \in BOOLEAN, s \in SeqsUpTo(Anchors, MaxAnchors)}
WellFormed(page) ==
    /\ page.hasFullImageLink \/ page.fullImageLink = <<>>
    /\ page.hasFullMedia \/ page.fullMedia = <<>>

\* img.get("href") is truthy: the attribute exists and is not empty
Truthy(anchor) == anchor.hasHref /\ anchor.href # EmptyImageHref

\* full_media.find("a", href=True): the first anchor that has an href attribute
FirstWithHref(anchors) ==
    LET having == {k \in DOMAIN anchors : anchors[k].hasHref}
    IN IF having = {} THEN 0 ELSE CHOOSE k \in having : \A j \in having : k <= j

\* (the two strategies in the other order)
get_full_image_url_media_first(page) ==
    IF ~page.ok THEN NoImage
    ELSE IF page.hasFullMedia /\ FirstWithHref(page.fullMedia) # 0
         THEN urljoin(BASE_URL, page.fullMedia[FirstWithHref(page.fullMedia)].href)
         ELSE IF /\ page.hasFullImageLink
                 /\ page.fullImageLink # <<>>
                 /\ Truthy(page.fullImageLink[1])
              THEN urljoin(BASE_URL, page.fullImageLink[1].href)
              ELSE NoImage

\* get_full_image_url, lines 91-109, applied to what get_page returned
get_full_image_url(page) ==
    IF ~page.ok THEN NoImage
    ELSE IF /\ page.hasFullImageLink
            /\ page.fullImageLink # <<>>
            /\ Truthy(page.fullImageLink[1])
         THEN urljoin(BASE_URL, page.fullImageLink[1].href)
         ELSE IF page.hasFullMedia /\ FirstWithHref(page.fullMedia) # 0
              THEN urljoin(BASE_URL, page.fullMedia[FirstWithHref(page.fullMedia)].href)
              ELSE NoImage

(***************************************************************************)
(* download_image, lines 112-124.  The request for an image ends           *)
(*   "ok"       the whole body arrives                                     *)
(*   "refused"  requests.get or raise_for_status raises RequestException   *)
(*   "cut"      iter_content raises RequestException after the file was    *)
(*              opened                                                     *)
(* and the filesystem answers                                              *)
(*   "ok"       open and every write succeed                               *)
(*   "noopen"   open raises OSError, no file is created                    *)
(*   "nowrite"  a write raises OSError after the file was created          *)
(* The result is [returned, file]: returned is "True", "False" or          *)
(* "raised" (the OSError is not caught by download_image), file is what    *)
(* is at output_path afterwards.                                           *)
(***************************************************************************)
Responses == {"ok", "refused", "cut"}
FsAnswers == {"ok", "noopen", "nowrite"}

File(state, url) == [state |-> state, from |-> url]
NoFile == File("absent", NoImage)

download_image(response, fs, url, before) ==
    IF response = "refused" THEN [returned |-> "False", file |-> before]
    ELSE IF fs = "noopen" THEN [returned |-> "raised", file |-> before]
    ELSE IF fs = "nowrite" THEN [returned |-> "raised", file |-> File("partial", url)]
    ELSE IF response = "cut" THEN [returned |-> "False", file |-> File("partial", url)]
    ELSE [returned |-> "True", file |-> File("complete", url)]

(***************************************************************************)
(* The process.  pc is                                                     *)
(*   "start"    before main's first statement                              *)
(*   "walk"     in the loop of get_image_urls_from_category, about to      *)
(*              request current_url                                        *)
(*   "walked"   get_image_urls_from_category has returned file_pages       *)
(*   "items"    in main's loop, about to process item i                    *)
(*   "download" in main's loop, item i resolved, about to download it      *)
(*   "done"     main has returned                                          *)
(*   "aborted"  an exception left main                                     *)
(*   "killed"   the process was stopped from outside while streaming       *)
(*                                                                         *)
(* hist records, for the run in progress,                                  *)
(*   madeDir    how os.makedirs ended: "none" (not called), "ok", "failed" *)
(*   sent       a network request has been issued                          *)
(*   pending    no time.sleep has been called since the latest request     *)
(*   gap        what lay between the latest request and the one before:    *)
(*              "first" (there was none before), "slept" or "none"         *)
(*   opens      filename -> calls of open(output_path, "wb")               *)
(* and, over all the runs,                                                 *)
(*   truncated  filename -> the file an interrupted download left there    *)
(***************************************************************************)
NoItem == [url |-> FileURL(<<>>), outcome |-> "none", returned |-> "none",
           fs |-> "none", before |-> NoFile, after |-> NoFile]
NoRun == [pc |-> "none", disk |-> [f \in Filenames |-> NoFile], items |-> {},
          downloaded |-> 0, skipped |-> 0, failed |-> 0]
NoCalls == [u \in FileURLs |-> 0]

NoOpens == [f \in Filenames |-> 0]
Hist0 == [madeDir |-> "none", sent |-> FALSE, pending |-> FALSE, gap |-> "first",
          opens |-> NoOpens, truncated |-> [f \in Filenames |-> NoFile]]
NoCall == [fn |-> "none", arg |-> <<>>, done |-> TRUE, result |-> <<>>]

\* a network request is issued (requests.get), and time.sleep is called after
\* it or not before the next statement that can issue a request
Requested(h, sleeps) ==
    [h EXCEPT !.sent = TRUE,
              !.gap = IF ~h.sent THEN "first" ELSE IF h.pending THEN "none" ELSE "slept",
              !.pending = ~sleeps]

Locals0 ==
    /\ current_url = None
    /\ all_file_pages = NoCopies
    /\ page_count = 0
    /\ file_pages = <<>>
    /\ i = 0
    /\ image_url = NoImage
    /\ downloaded = 0 /\ skipped = 0 /\ failed = 0
    /\ fetched = <<>>
    /\ found = {}
    /\ resolveCalls = NoCalls
    /\ downloadCalls = NoCalls
    /\ lastItem = NoItem
    /\ hist = Hist0

\* main, line 143: an OSError of os.makedirs is not caught and leaves main
AfterMakedirsIgnored(created) == "walk"
AfterMakedirs(created) == IF created THEN "walk" ELSE "aborted"

\* main, lines 142-148: create the directory, then call the walker.
\* os.makedirs raises OSError when the directory cannot be created.
StartRun ==
    /\ pc = "start"
    /\ \E created \in BOOLEAN :
         /\ hist' = [hist EXCEPT !.madeDir = IF created THEN "ok" ELSE "failed"]
         /\ pc' = AfterMakedirs(created)
         /\ IF AfterMakedirs(created) = "walk"
            THEN /\ current_url' = CATEGORY_URL
                 /\ all_file_pages' = NoCopies
                 /\ page_count' = 0
            ELSE UNCHANGED walkerVars
    /\ UNCHANGED <<upstream, call, disk, run, file_pages, i, image_url, tally, walkLog,
                   resolveCalls, downloadCalls, lastItem, firstRun>>

\* the urls of the file links that either selector matches on a page
FileLinks(page) ==
    {urljoin(BASE_URL, h) :
        h \in {x \in {page.gallery[k] : k \in DOMAIN page.gallery}
                       \cup {page.items[k] : k \in DOMAIN page.items} : IsFileLink(x)}}

\* get_image_urls_from_category, lines 51-52: the break after a failed fetch
\* leaves all_file_pages as the earlier pages filled it
AfterFailedFetchEmpty(collected) == NoCopies
AfterFailedFetch(collected) == collected

\* get_image_urls_from_category, line 80: if next_link and next_link != current_url
ContinuesAnyLink(next_link, url) == next_link # None
Continues(next_link, url) == next_link # None /\ next_link # url

\* get_image_urls_from_category, lines 46-86: one iteration of the loop, and
\* the return when the loop ends.
WalkPage ==
    /\ pc = "walk"
    /\ page_count' = Min(page_count + 1, MaxLog)
    /\ fetched' = IF Len(fetched) < MaxLog THEN Append(fetched, current_url) ELSE fetched
    /\ \E page \in Served(current_url) :
         LET soup_ok == page.ok
             collected == IF soup_ok THEN ExtractLinks(all_file_pages, page)
                          ELSE AfterFailedFetch(all_file_pages)
             next_link == NextLink(page)
             goes_on == soup_ok /\ Continues(next_link, current_url)
         IN /\ all_file_pages' = collected
            /\ hist' = Requested(hist, goes_on)
            /\ found' = IF soup_ok THEN found \cup FileLinks(page) ELSE found
            /\ IF goes_on
               THEN /\ current_url' = next_link
                    /\ pc' = "walk"
                    /\ UNCHANGED file_pages
               ELSE /\ current_url' = IF soup_ok THEN None ELSE current_url
                    /\ pc' = "walked"
                    /\ file_pages' \in RemoveDuplicates(collected)
    /\ UNCHANGED <<upstream, call, disk, run, i, image_url, tally, resolveCalls,
                   downloadCalls, lastItem, firstRun>>

\* main, lines 149-159: nothing found, or the counters are set to zero and
\* the loop over file_pages begins.
BeginItems ==
    /\ pc = "walked"
    /\ pc' = IF file_pages = <<>> THEN "done" ELSE "items"
    /\ i' = 1
    /\ downloaded' = 0 /\ skipped' = 0 /\ failed' = 0
    /\ UNCHANGED <<upstream, call, disk, run, walkerVars, file_pages, image_url, walkLog,
                   resolveCalls, downloadCalls, lastItem, firstRun, hist>>

\* the loop goes to the next item, or ends and main prints the summary
AfterItemReturn == "done"
AfterItem == IF i + 1 > Len(file_pages) THEN "done" ELSE "items"

\* main, lines 161-171: the destination of item i exists, the item is skipped.
SkipItem ==
    /\ pc = "items"
    /\ LET file_page == file_pages[i]
           output_path == OutputPath(file_page)
       IN /\ path_exists(disk, output_path)
          /\ skipped' = skipped + 1
          /\ lastItem' = [NoItem EXCEPT !.url = file_page, !.outcome = "skipped",
                                        !.before = disk[output_path],
                                        !.after = disk[output_path]]
    /\ i' = i + 1
    /\ pc' = AfterItem
    /\ UNCHANGED <<upstream, call, disk, run, walkerVars, file_pages, image_url, downloaded,
                   failed, walkLog, resolveCalls, downloadCalls, firstRun, hist>>

\* main, lines 161-180: the destination of item i does not exist, the file
\* page is requested and resolved; without an image url the item has failed.
ResolveItem ==
    /\ pc = "items"
    /\ LET file_page == file_pages[i]
           output_path == OutputPath(file_page)
           url == get_full_image_url(filePage[file_page])
       IN /\ ~path_exists(disk, output_path)
          /\ resolveCalls' = [resolveCalls EXCEPT ![file_page] = @ + 1]
          /\ hist' = Requested(hist, FALSE)
          /\ image_url' = url
          /\ IF url = NoImage
             THEN /\ failed' = failed + 1
                  /\ i' = i + 1
                  /\ pc' = AfterItem
                  /\ lastItem' = [NoItem EXCEPT !.url = file_page, !.outcome = "failed"]
             ELSE /\ pc' = "download"
                  /\ UNCHANGED <<failed, i, lastItem>>
    /\ UNCHANGED <<upstream, call, disk, run, walkerVars, file_pages, downloaded, skipped,
                   walkLog, downloadCalls, firstRun>>

\* main, lines 183-189: download_image is called for item i; an OSError that
\* download_image does not catch leaves main.
DownloadItem ==
    /\ pc = "download"
    /\ \E fs \in FsAnswers :
         LET file_page == file_pages[i]
             output_path == OutputPath(file_page)
             result == download_image(image[image_url], fs, image_url, disk[output_path])
             opened == image[image_url] # "refused"
         IN /\ downloadCalls' = [downloadCalls EXCEPT ![file_page] = @ + 1]
            /\ disk' = [disk EXCEPT ![output_path] = result.file]
            /\ hist' = [Requested(hist, result.returned # "raised")
                           EXCEPT !.opens[output_path] = IF opened THEN @ + 1 ELSE @]
            /\ lastItem' = [url |-> file_page, returned |-> result.returned,
                            fs |-> IF image[image_url] = "refused" THEN "none" ELSE fs,
                            before |-> disk[output_path], after |-> result.file,
                            outcome |-> CASE result.returned = "True" -> "downloaded"
                                          [] result.returned = "False" -> "failed"
                                          [] OTHER -> "raised"]
            /\ CASE result.returned = "True" ->
                      /\ downloaded' = downloaded + 1
                      /\ i' = i + 1 /\ pc' = AfterItem
                      /\ UNCHANGED failed
                 [] result.returned = "False" ->
                      /\ failed' = failed + 1
                      /\ i' = i + 1 /\ pc' = AfterItem
                      /\ UNCHANGED downloaded
                 [] OTHER ->
                      /\ pc' = "aborted"
                      /\ UNCHANGED <<downloaded, failed, i>>
    /\ UNCHANGED <<upstream, call, run, walkerVars, file_pages, image_url, skipped, walkLog,
                   resolveCalls, firstRun>>

\* download_image, lines 115-120: the process is stopped from outside while
\* the body is streamed into the file that open has created.
Interrupt ==
    /\ pc = "download"
    /\ image[image_url] # "refused"
    /\ LET file_page == file_pages[i]
           output_path == OutputPath(file_page)
           left == File("partial", image_url)
       IN /\ downloadCalls' = [downloadCalls EXCEPT ![file_page] = @ + 1]
          /\ disk' = [disk EXCEPT ![output_path] = left]
          /\ hist' = [Requested(hist, FALSE)
                         EXCEPT !.opens[output_path] = @ + 1,
                                !.truncated[output_path] = left]
          /\ lastItem' = [url |-> file_page, returned |-> "none", fs |-> "killed",
                          before |-> disk[output_path], after |-> left,
                          outcome |-> "interrupted"]
    /\ pc' = "killed"
    /\ UNCHANGED <<upstream, call, run, walkerVars, file_pages, i, image_url, tally,
                   walkLog, resolveCalls, firstRun>>

\* The script is invoked again after the previous invocation has ended.
NextRun ==
    /\ pc \in {"done", "aborted", "killed"}
    /\ run < MaxRuns
    /\ run' = run + 1
    /\ pc' = "start"
    /\ firstRun' = IF run = 1
                   THEN [pc |-> pc, disk |-> disk,
                         items |-> {file_pages[k] : k \in DOMAIN file_pages},
                         downloaded |-> downloaded, skipped |-> skipped, failed |-> failed]
                   ELSE firstRun
    /\ current_url' = None
    /\ all_file_pages' = NoCopies
    /\ page_count' = 0
    /\ file_pages' = <<>>
    /\ i' = 0
    /\ image_url' = NoImage
    /\ downloaded' = 0 /\ skipped' = 0 /\ failed' = 0
    /\ fetched' = <<>>
    /\ found' = {}
    /\ resolveCalls' = NoCalls
    /\ downloadCalls' = NoCalls
    /\ lastItem' = NoItem
    /\ hist' = [Hist0 EXCEPT !.truncated = hist.truncated]
    /\ UNCHANGED <<upstream, call, disk>>

\* get_full_image_url called on its own, lines 89-109.
ResolveCall ==
    /\ pc = "resolver"
    /\ \E file_page \in FileURLs :
         /\ image_url' = get_full_image_url(filePage[file_page])
         /\ resolveCalls' = [resolveCalls EXCEPT ![file_page] = @ + 1]
         /\ lastItem' = [NoItem EXCEPT !.url = file_page]
    /\ hist' = Requested(hist, FALSE)
    /\ pc' = "resolved"
    /\ UNCHANGED <<upstream, call, disk, run, walkerVars, file_pages, i, tally, walkLog,
                   downloadCalls, firstRun>>

(***************************************************************************)
(* The wiki at the start.                                                  *)
(***************************************************************************)
Page(stable, ok, hasGallery, gallery, items, hasNext, next) ==
    [stable |-> stable, ok |-> ok, hasGallery |-> hasGallery, gallery |-> gallery,
     items |-> items, hasNext |-> hasNext, next |-> next]
\* a page without links that is always served
PlainPage == Page(TRUE, TRUE, FALSE, <<>>, <<>>, FALSE, EmptyHref)
\* a page whose body changes from request to request, with a fixed next link
ChangingPage(hasNext, next) == Page(FALSE, TRUE, FALSE, <<>>, <<>>, hasNext, next)
\* a page with a gallery that is always served
GalleryPage(gallery, items, hasNext, next) ==
    Page(TRUE, TRUE, TRUE, gallery, items, hasNext, next)

\* a file page whose fullImageLink container links to the image of the title
PrimaryPage(title) ==
    FilePage(TRUE, TRUE, <<Anchor(ImageHref("", title))>>, FALSE, <<>>)
FailingPage == FilePage(FALSE, FALSE, <<>>, FALSE, <<>>)
BarePage == FilePage(TRUE, FALSE, <<>>, FALSE, <<>>)

TitleOrder == << <<"a">>, <<":">>, <<"%", "3", "A">> >>
RelHref(title) == LinkHref("", FilePrefix, title)
AbsHref(title) == LinkHref(BASE_URL, FilePrefix, title)
Listing(S) ==
    LET In(t) == t \in S
        chosen == SelectSeq(TitleOrder, In)
    IN [k \in DOMAIN chosen |-> RelHref(chosen[k])]

\* The category of a run of the whole script: one page listing any set of
\* titles, one page listing a title twice and by both selectors, or two
\* pages listing a title each and both.
Categories ==
    {[u \in CatURLs |-> IF u = CATEGORY_URL
                        THEN GalleryPage(Listing(S), <<>>, FALSE, EmptyHref)
                        ELSE PlainPage] : S \in SUBSET Titles}
    \cup
    {[u \in CatURLs |-> IF u = CATEGORY_URL
                        THEN GalleryPage(<<RelHref(<<"a">>), AbsHref(<<"a">>)>>,
                                         <<RelHref(<<"a">>), RelHref(<<":">>)>>,
                                         TRUE, CatHref(BASE_URL, 1))
                        ELSE PlainPage],
     [u \in CatURLs |-> IF u = CATEGORY_URL
                        THEN GalleryPage(<<RelHref(<<"a">>)>>, <<>>, TRUE, CatHref("", 2))
                        ELSE IF u = CatHref(BASE_URL, 2)
                        THEN GalleryPage(<<AbsHref(<<"a">>), RelHref(<<":">>)>>,
                                         <<RelHref(<<"%", "3", "A">>)>>, FALSE, EmptyHref)
                        ELSE PlainPage]}

Listed(c) ==
    {urljoin(BASE_URL, h) :
        h \in UNION {{c[u].gallery[k] : k \in DOMAIN c[u].gallery}
                     \cup {c[u].items[k] : k \in DOMAIN c[u].items} : u \in CatURLs}}

ImageOf(file_page) == ImageHref(BASE_URL, file_page.title)

\* Every listed file page fails, has no link, or links to its image, whose
\* request ends in any of the three ways; the rest of the wiki is plain.
InitUpstream ==
    /\ category \in Categories
    /\ filePage \in [FileURLs -> {FailingPage, BarePage} \cup {PrimaryPage(t) : t \in Titles}]
    /\ \A u \in FileURLs :
         /\ filePage[u] \in {FailingPage, BarePage, PrimaryPage(u.title)}
         /\ u \notin Listed(category) => filePage[u] = PrimaryPage(u.title)
    /\ image \in [ImageURLs -> Responses]
    /\ \A u \in ImageURLs :
         (\A f \in Listed(category) \cap FileURLs :
              ImageOf(f) # u \/ filePage[f] # PrimaryPage(f.title))
            => image[u] = "ok"

Init ==
    /\ InitUpstream
    /\ disk = [f \in Filenames |-> NoFile]
    /\ run = 1
    /\ pc = "start"
    /\ firstRun = NoRun
    /\ call = NoCall
    /\ Locals0

Next ==
    \/ StartRun
    \/ WalkPage
    \/ BeginItems
    \/ SkipItem
    \/ ResolveItem
    \/ DownloadItem
    \/ Interrupt
    \/ NextRun

Spec == Init /\ [][Next]_vars

(***************************************************************************)
(* The walker on its own, on a wiki whose category pages change their      *)
(* bodies and fail at will but keep their "next page" links.               *)
(***************************************************************************)
\* the pages the walker can come to from CATEGORY_URL in the category c
RECURSIVE ReachableIn(_, _, _)
ReachableIn(c, seen, n) ==
    IF n = 0 THEN seen
    ELSE ReachableIn(c, seen \cup ({NextLink(c[u]) : u \in seen} \ {None}), n - 1)

InitWalk ==
    /\ category \in [CatURLs -> {ChangingPage(FALSE, EmptyHref)}
                                 \cup {ChangingPage(TRUE, n) : n \in NextHrefs}]
    /\ category[CatHref(BASE_URL, 0)] = ChangingPage(FALSE, EmptyHref)
    \* a page that is never requested is left plain
    /\ \A u \in CatURLs \ ReachableIn(category, {CATEGORY_URL}, NPages) :
           category[u] = ChangingPage(FALSE, EmptyHref)
    /\ filePage = [u \in FileURLs |-> PrimaryPage(u.title)]
    /\ image = [u \in ImageURLs |-> "ok"]
    /\ disk = [f \in Filenames |-> NoFile]
    /\ run = 1
    /\ pc = "walk"
    /\ firstRun = NoRun
    /\ current_url = CATEGORY_URL
    /\ all_file_pages = NoCopies
    /\ page_count = 0
    /\ file_pages = <<>>
    /\ i = 0
    /\ image_url = NoImage
    /\ downloaded = 0 /\ skipped = 0 /\ failed = 0
    /\ fetched = <<>>
    /\ found = {}
    /\ resolveCalls = NoCalls
    /\ downloadCalls = NoCalls
    /\ lastItem = NoItem
    /\ hist = Hist0
    /\ call = NoCall

NextWalk == WalkPage

SpecWalk == InitWalk /\ [][NextWalk]_vars
\* the loop runs as long as it can: the process is not stopped from outside
SpecWalkFair == SpecWalk /\ WF_vars(NextWalk)

(***************************************************************************)
(* The resolver on its own, on any file page.                              *)
(***************************************************************************)
InitResolve ==
    /\ category = [u \in CatURLs |-> PlainPage]
    /\ filePage \in {[u \in FileURLs |-> IF u = FileURL(<<"a">>) THEN p
                                         ELSE PrimaryPage(u.title)] :
                       p \in {q \in FilePages : WellFormed(q)}}
    /\ image = [u \in ImageURLs |-> "ok"]
    /\ disk = [f \in Filenames |-> NoFile]
    /\ run = 1
    /\ pc = "resolver"
    /\ firstRun = NoRun
    /\ call = NoCall
    /\ Locals0

NextResolve == ResolveCall

SpecResolve == InitResolve /\ [][NextResolve]_vars

(***************************************************************************)
(* The sanitizer on its own, on titles around the length limit: a unit     *)
(* repeated, then an extension.  The units are a letter, the escape of a   *)
(* character that is replaced, and the escape of a dot.                    *)
(***************************************************************************)
Slack == 5   \* how far the repetitions go below KeptNameLen and above MaxFilenameLen

Repeat(unit, n) == [k \in 1..(n * Len(unit)) |-> unit[((k - 1) % Len(unit)) + 1]]

Png == <<".", "p", "n", "g">>
Gif == <<".", "g", "i", "f">>
Backup == <<".", "b", "a", "c", "k", "u", "p">>
\* str.endswith
EndsWith(s, suffix) ==
    /\ Len(s) >= Len(suffix)
    /\ SubSeq(s, Len(s) - Len(suffix) + 1, Len(s)) = suffix

Units == {<<"a">>, <<"%", "3", "A">>, <<"%", "2", "E">>}
Extensions == {<<>>, Png, Gif, Backup}
Repetitions == (KeptNameLen - Slack)..(MaxFilenameLen + Slack)
LongTitles == {Repeat(u, n) \o e : u \in Units, n \in Repetitions, e \in Extensions}

\* Short titles with the characters that are replaced: each of them as it
\* is, percent-encoded (with hex digits of either case), and the escape of
\* an escape ("%253A" decodes to "%3A", which is not decoded again).
Escapes == {<<"%", "2", "2">>, <<"%", "2", "A">>, <<"%", "2", "a">>, <<"%", "2", "F">>,
            <<"%", "3", "A">>, <<"%", "3", "C">>, <<"%", "3", "E">>, <<"%", "3", "F">>,
            <<"%", "5", "C">>, <<"%", "5", "c">>, <<"%", "7", "C">>,
            <<"%", "2", "5", "3", "A">>}
BadUnits == {<<c>> : c \in BadChars} \cup Escapes \cup {<<>>}
ShortTitles == {<<"a">> \o u \o v \o Png : u, v \in BadUnits}

\* all the variables but call
program == <<category, filePage, image, disk, run, pc, current_url, all_file_pages,
             page_count, file_pages, i, image_url, downloaded, skipped, failed,
             fetched, found, resolveCalls, downloadCalls, lastItem, firstRun, hist>>

\* no run of main is in progress
Parked ==
    /\ category = [u \in CatURLs |-> PlainPage]
    /\ filePage = [u \in FileURLs |-> PrimaryPage(u.title)]
    /\ image = [u \in ImageURLs |-> "ok"]
    /\ disk = [f \in Filenames |-> NoFile]
    /\ run = 1
    /\ pc = "call"
    /\ firstRun = NoRun
    /\ Locals0

Call(fn, arg, result) == [fn |-> fn, arg |-> arg, done |-> FALSE, result |-> result]

InitSanitize ==
    /\ Parked
    /\ call \in {Call("sanitize_filename", t, <<>>) : t \in LongTitles \cup ShortTitles}

\* sanitize_filename called on its own, lines 127-137
SanitizeCall ==
    /\ pc = "call"
    /\ call.fn = "sanitize_filename"
    /\ ~call.done
    /\ call' = [call EXCEPT !.done = TRUE, !.result = sanitize_filename(call.arg)]
    /\ UNCHANGED program

NextSanitize == SanitizeCall

SpecSanitize == InitSanitize /\ [][NextSanitize]_vars

(***************************************************************************)
(* The catalog-driven scripts download_items.py, download_mobs_api.py and  *)
(* download_missing_mobs.py: the filename that main gives to a catalog     *)
(* entry name -> file title, and the API resolver get_image_url, which is  *)
(* the same text in the three scripts.  Names and titles are sequences of  *)
(* characters; the titles of the model are short stand-ins for the wiki    *)
(* titles of the catalogs, with their extensions.                          *)
(***************************************************************************)
Scripts == {"download_items.py", "download_mobs_api.py", "download_missing_mobs.py"}
Prefix == <<"m", "i", "n", "e", "c", "r", "a", "f", "t", "-">>
Bow == <<"b", "o", "w">>
Pig == <<"p", "i", "g">>
Cow == <<"c", "o", "w">>
Alex == <<"a", "l", "e", "x">>
Tnt == <<"t", "n", "t">>
Stems == {<<"B">>, <<"g", "i", "f">>}

\* ITEMS has titles in ".png" and one in ".gif"; every title of MOBS and of
\* MISSING_MOBS ends in ".png"
Catalog(script) ==
    IF script = "download_items.py"
    THEN {<<n, st \o e>> : n \in {Bow, Tnt}, st \in Stems, e \in {Png, Gif}}
    ELSE IF script = "download_mobs_api.py"
    THEN {<<n, st \o Png>> : n \in {Pig, Cow}, st \in Stems}
    ELSE {<<n, st \o Png>> : n \in {Alex}, st \in Stems}

\* main of each script: the filename of the entry name -> file_title
catalog_filename_png(script, name, file_title) == Prefix \o name \o Png
catalog_filename(script, name, file_title) ==
    IF script = "download_items.py"
    THEN Prefix \o name \o (IF EndsWith(file_title, Gif) THEN Gif ELSE Png)
    ELSE Prefix \o name \o Png

(***************************************************************************)
(* What the API answers to the query of get_image_url:                     *)
(*   "refused"  the request fails or the status is an error                *)
(*              (requests.RequestException)                                *)
(*   "notjson"  the body is not JSON (response.json() raises ValueError)   *)
(*   "shape"    the JSON has not the shape the code reads (data, a page    *)
(*              or an imageinfo entry is no object: AttributeError)        *)
(*   "json"     query.pages is pages: the pages in the order of the body,  *)
(*              each [id, imageinfo], an imageinfo entry [hasUrl, url]     *)
(***************************************************************************)
MaxApiPages == 2   \* pages in one answer of the API

AbsentURL == "None"
InfoEntry(url) == [hasUrl |-> TRUE, url |-> url]
NoUrlEntry == [hasUrl |-> FALSE, url |-> AbsentURL]
InfoLists == {<<>>, <<InfoEntry("u1")>>, <<NoUrlEntry>>,
              <<InfoEntry("u1"), InfoEntry("u2")>>, <<NoUrlEntry, InfoEntry("u1")>>}
PageIds == {"-1", "7", "8"}
ApiPage(id, imageinfo) == [id |-> id, imageinfo |-> imageinfo]
ApiPages == {ApiPage(id, ii) : id \in PageIds, ii \in InfoLists}
\* the keys of a JSON object, once decoded, are distinct
DistinctIds(pages) == \A j, k \in DOMAIN pages : j # k => pages[j].id # pages[k].id
ApiFailure(kind) == [kind |-> kind, pages |-> <<>>]
ApiAnswers ==
    {ApiFailure(kind) : kind \in {"refused", "notjson", "shape"}}
    \cup {[kind |-> "json", pages |-> ps] :
             ps \in {q \in SeqsUpTo(ApiPages, MaxApiPages) : DistinctIds(q)}}

\* get_image_url: the loop over pages.items()
RECURSIVE PagesLoop(_)
PagesLoop(pages) ==
    IF pages = <<>> THEN AbsentURL
    ELSE IF pages[1].id = "-1" THEN AbsentURL
    ELSE IF pages[1].imageinfo # <<>> THEN pages[1].imageinfo[1].url
    ELSE PagesLoop(Tail(pages))

\* get_image_url: the body of the try statement
TryBody(answer) ==
    CASE answer.kind = "refused" -> [raises |-> "RequestException", value |-> AbsentURL]
      [] answer.kind = "notjson" -> [raises |-> "ValueError", value |-> AbsentURL]
      [] answer.kind = "shape" -> [raises |-> "AttributeError", value |-> AbsentURL]
      [] OTHER -> [raises |-> "none", value |-> PagesLoop(answer.pages)]

\* get_image_url: except Exception
Exceptions == {"RequestException", "ValueError", "AttributeError"}
CaughtRequestOnly(exc) == exc = "RequestException"
Caught(exc) == exc \in Exceptions

get_image_url(answer) ==
    LET body == TryBody(answer)
    IN IF body.raises = "none" THEN [returned |-> "value", url |-> body.value]
       ELSE IF Caught(body.raises) THEN [returned |-> "value", url |-> AbsentURL]
       ELSE [returned |-> "raised", url |-> AbsentURL]

NotReturned == [returned |-> "none", url |-> AbsentURL]

InitCatalog ==
    /\ Parked
    /\ call \in {Call("filename", <<sc, e[1], e[2]>>, <<>>) :
                    sc \in Scripts, e \in UNION {Catalog(x) : x \in Scripts}}
                \cup {Call("get_image_url", a, NotReturned) : a \in ApiAnswers}
    /\ call.fn = "filename" => <<call.arg[2], call.arg[3]>> \in Catalog(call.arg[1])

\* main of a catalog script names the file of an entry
NameEntry ==
    /\ pc = "call"
    /\ call.fn = "filename"
    /\ ~call.done
    /\ call' = [call EXCEPT !.done = TRUE,
                            !.result = catalog_filename(call.arg[1], call.arg[2], call.arg[3])]
    /\ UNCHANGED program

\* get_image_url called on its own
ApiResolveCall ==
    /\ pc = "call"
    /\ call.fn = "get_image_url"
    /\ ~call.done
    /\ call' = [call EXCEPT !.done = TRUE, !.result = get_image_url(call.arg)]
    /\ UNCHANGED program

NextCatalog ==
    \/ NameEntry
    \/ ApiResolveCall

SpecCatalog == InitCatalog /\ [][NextCatalog]_vars

(***************************************************************************)
(* Properties.                                                             *)
(***************************************************************************)
Items == {file_pages[k] : k \in DOMAIN file_pages}
Present(dir, S) == {u \in S : dir[OutputPath(u)] # NoFile}
SecondRunDone == run = 2 /\ pc = "done" /\ firstRun.pc = "done"

\* C1, as claimed: when the script has run twice to its end on the same wiki,
\* the second run counted every item as skipped, none as downloaded or
\* failed, and left the directory as the first run left it.
C1_SecondRunAllSkipped ==
    SecondRunDone =>
        /\ downloaded = 0 /\ failed = 0
        /\ skipped = Len(file_pages)
        /\ disk = firstRun.disk

\* C1, amended: in a second run after a first run that ended normally on the
\* same wiki, nothing is downloaded and the directory stays as the first run
\* left it; at its end the items whose destination existed after the first
\* run are the skipped ones, and all the others have failed again.
C1_SecondRunDownloadsNothing ==
    (run = 2 /\ firstRun.pc = "done") =>
        /\ downloaded = 0
        /\ disk = firstRun.disk
        /\ pc = "done" =>
             /\ Items = firstRun.items
             /\ skipped = Cardinality(Present(firstRun.disk, Items))
             /\ failed = Cardinality(Items \ Present(firstRun.disk, Items))

C1_Witness ==
    /\ SecondRunDone
    /\ firstRun.downloaded > 0
    /\ skipped > 0
    /\ failed > 0

\* C2: within one run, get_full_image_url and download_image are each called
\* at most once for a file page url, also when the category lists the url
\* several times or on several pages.
C2_AtMostOneCallPerURL ==
    \A u \in FileURLs : resolveCalls[u] <= 1 /\ downloadCalls[u] <= 1

C2_Witness ==
    /\ pc = "done"
    /\ \E u \in FileURLs : all_file_pages[u] >= 2 /\ resolveCalls[u] = 1
    /\ \E u \in FileURLs : downloadCalls[u] = 1

\* C3, as claimed: on every finite set of category pages with "next page"
\* links among them, the loop of the walker ends and the walker returns.
C3_WalkerReturns == <>(pc = "walked")

\* The chain of pages that starts at CATEGORY_URL, when the "next page" links
\* lead from it to a page without such a link.
Chains ==
    {s \in SeqsUpTo(CatURLs, NPages + 1) :
        /\ Len(s) >= 1
        /\ s[1] = CATEGORY_URL
        /\ \A k \in 1..(Len(s) - 1) : NextLink(category[s[k]]) = s[k + 1]
        /\ NextLink(category[s[Len(s)]]) = None}
\* the walker has returned after a loop in which no request failed
ReturnedAfterLastPage == pc = "walked" /\ current_url = None

\* C4: on a chain of n pages that are all served, the last one without a
\* "next page" link, the walker requests exactly these pages, once each and
\* in the order of the chain, and returns exactly the file links that either
\* selector matched on them.
C4_ChainWalkedInOrder ==
    ReturnedAfterLastPage =>
        \A chain \in Chains :
            /\ fetched = chain
            /\ page_count = Len(chain)
            /\ Items = found

C4_Witness ==
    /\ ReturnedAfterLastPage
    /\ \E chain \in Chains : Len(chain) = 3
    /\ Cardinality(found) = 2

\* C5: the list the walker returns holds every url at most once.
C5_ReturnedOnce ==
    pc = "walked" => \A u \in FileURLs : Count(file_pages, u) <= 1

C5_Witness ==
    /\ pc = "walked"
    /\ Len(fetched) >= 2
    /\ \E u \in FileURLs : all_file_pages[u] >= 2 /\ Count(file_pages, u) = 1

\* the item about to be processed, and whether processing it fails for one
\* of the reasons main counts: the file page is not served, neither
\* selector gives a url, the request for the image fails
ItemDestination == OutputPath(file_pages[i])
ResolutionFails ==
    /\ pc = "items"
    /\ disk[ItemDestination] = NoFile
    /\ get_full_image_url(filePage[file_pages[i]]) = NoImage
DownloadRequestFails ==
    /\ pc = "download"
    /\ image[image_url] # "ok"
    /\ lastItem'.fs \in {"none", "ok"}

\* C6: an item that fails adds one to failed and to no other counter, and the
\* loop goes on with the next item of the list (or ends normally after the
\* last); a run that ends normally has counted every item of the list.
C6_FailureDoesNotAbort ==
    /\ [][(ResolutionFails \/ DownloadRequestFails) =>
            /\ failed' = failed + 1
            /\ downloaded' = downloaded /\ skipped' = skipped
            /\ i' = i + 1
            /\ pc' = IF i < Len(file_pages) THEN "items" ELSE "done"]_vars
    /\ [](pc = "done" /\ file_pages # <<>> =>
            downloaded + skipped + failed = Len(file_pages))

C6_Witness ==
    /\ pc = "done"
    /\ Len(file_pages) = 3
    /\ failed = 1
    /\ i = 4
    /\ lastItem.outcome = "downloaded"
    /\ downloaded = 2

\* C7: when the destination of the item exists, the step of main that
\* processes the item issues no request, leaves the directory as it is and
\* adds one to skipped.
C7_ExistingIsSkippedWithoutRequest ==
    [][(pc = "items" /\ disk[ItemDestination] # NoFile) =>
          /\ skipped' = skipped + 1
          /\ disk' = disk
          /\ resolveCalls' = resolveCalls
          /\ downloadCalls' = downloadCalls
          /\ fetched' = fetched
          /\ downloaded' = downloaded /\ failed' = failed]_vars

C7_Witness ==
    /\ lastItem.outcome = "skipped"
    /\ lastItem.after.state = "complete"
    /\ resolveCalls[lastItem.url] = 0
    /\ run = 1

\* C8, as claimed: after download_image has returned False there is no file
\* at the destination.
C8_NoFileAfterFalse ==
    lastItem.returned = "False" => lastItem.after = NoFile

\* C9, as claimed: when the filesystem fails while download_image opens or
\* writes the file, the item is counted as failed and the run goes on.
C9_WriteFailureRecovered ==
    lastItem.fs \in {"noopen", "nowrite"} =>
        /\ lastItem.outcome = "failed"
        /\ pc # "aborted"

\* The page the resolver was called on, and the strategies of C10.
ResolvedPage == filePage[lastItem.url]
Usable(anchors) == {k \in DOMAIN anchors : Truthy(anchors[k])}
First(S) == CHOOSE k \in S : \A j \in S : k <= j
SecondaryResult(page) ==
    IF page.hasFullMedia /\ \E k \in DOMAIN page.fullMedia : page.fullMedia[k].hasHref
    THEN urljoin(BASE_URL,
                 page.fullMedia[First({k \in DOMAIN page.fullMedia :
                                          page.fullMedia[k].hasHref})].href)
    ELSE NoImage

\* C10, as claimed: the primary anchor's url whenever the fullImageLink
\* container has an anchor with a non-empty href, else the url of the first
\* anchor with href of the fullMedia container, else (or when the page is
\* not served) nothing.
C10_PrimaryWheneverUsableAnchor ==
    pc = "resolved" =>
        image_url =
            IF ~ResolvedPage.ok THEN NoImage
            ELSE IF ResolvedPage.hasFullImageLink /\ Usable(ResolvedPage.fullImageLink) # {}
                 THEN urljoin(BASE_URL,
                          ResolvedPage.fullImageLink[First(Usable(ResolvedPage.fullImageLink))].href)
                 ELSE SecondaryResult(ResolvedPage)

\* C10, amended: the primary strategy gives the url of the FIRST anchor of the
\* fullImageLink container when that anchor has a non-empty href; in every
\* other case the secondary strategy decides, and nothing is returned exactly
\* when the page is not served or both strategies fail.
C10_PrimaryWhenFirstAnchorUsable ==
    pc = "resolved" =>
        image_url =
            IF ~ResolvedPage.ok THEN NoImage
            ELSE IF /\ ResolvedPage.hasFullImageLink
                    /\ 1 \in Usable(ResolvedPage.fullImageLink)
                 THEN urljoin(BASE_URL, ResolvedPage.fullImageLink[1].href)
                 ELSE SecondaryResult(ResolvedPage)

C10_Witness ==
    /\ pc = "resolved"
    /\ ResolvedPage.ok
    /\ Usable(ResolvedPage.fullImageLink) = {2}
    /\ ResolvedPage.hasFullMedia
    /\ image_url = ImageHref(BASE_URL, <<":">>)
    /\ ResolvedPage.fullImageLink[2].href = ImageHref("", <<"a">>)

\* The walker has returned after a request that failed (the break of line 52
\* leaves current_url as it was).
FetchFailed == pc = "walked" /\ current_url # None

\* C11: when the request of a category page fails, the walker returns without
\* another request (the failed request is its last one), and it returns the
\* file links of all the pages it got before.
C11_FailedFetchKeepsEarlierPages ==
    FetchFailed =>
        /\ Items = found
        /\ page_count < MaxLog =>
              /\ Len(fetched) = page_count
              /\ fetched[Len(fetched)] = current_url

C11_Witness ==
    /\ FetchFailed
    /\ Len(fetched) = 3
    /\ Cardinality(found) = 2
    /\ Items = found

\* sanitize_filename has been called on call.arg and has returned call.result
SanitizeDone == call.fn = "sanitize_filename" /\ call.done
Replaced(title) == ReplaceBad(unquote(title))

\* C12, as claimed: the result of sanitize_filename has at most 200
\* characters; a decoded, character-replaced title of at most 200 characters
\* is returned whole, and a longer one is returned as a beginning of its base
\* name followed by its whole extension.
C12_FitsBudgetKeepingExtension ==
    SanitizeDone =>
        LET replaced == Replaced(call.arg)
            name == splitext(replaced)[1]
            ext == splitext(replaced)[2]
        IN /\ Len(call.result) <= MaxFilenameLen
           /\ Len(replaced) <= MaxFilenameLen => call.result = replaced
           /\ Len(replaced) > MaxFilenameLen =>
                 \E kept \in 0..Len(name) : call.result = SubSeq(name, 1, kept) \o ext

\* C13: for a title of more than 200 characters whose extension is ".png"
\* (the extension that splitext finds in the decoded, character-replaced
\* title), the result has at most 200 characters and ends in ".png".
C13_LongPngFitsAndStaysPng ==
    (/\ SanitizeDone
     /\ Len(call.arg) > MaxFilenameLen
     /\ splitext(Replaced(call.arg))[2] = Png) =>
        /\ Len(call.result) <= MaxFilenameLen
        /\ EndsWith(call.result, Png)

C13_Witness ==
    /\ SanitizeDone
    /\ Len(Replaced(call.arg)) > MaxFilenameLen
    /\ splitext(Replaced(call.arg))[2] = Png
    /\ Len(call.result) = KeptNameLen + Len(Png)
    /\ EndsWith(call.result, Png)

\* main of a catalog script has named the file of the entry call.arg
NameDone == call.fn = "filename" /\ call.done

\* C14: each of the three scripts gives the entry name -> title of its catalog
\* the filename "minecraft-" + name + ext, ext being ".gif" if the title ends
\* in ".gif" and ".png" if not.
C14_FilenameFromNameAndTitle ==
    NameDone =>
        call.result =
            Prefix \o call.arg[2] \o (IF EndsWith(call.arg[3], Gif) THEN Gif ELSE Png)

C14_Witness ==
    /\ NameDone
    /\ call.arg[3] = <<"B">> \o Gif
    /\ call.result = Prefix \o Bow \o Gif

\* get_image_url has been called and the API has answered call.arg
ApiDone == call.fn = "get_image_url" /\ call.done
FirstUrl(page) == IF page.imageinfo = <<>> THEN AbsentURL ELSE page.imageinfo[1].url

\* C17: get_image_url never raises; it returns nothing when the request or
\* the decoding fails and when the page of the answer has the id "-1"; for
\* any other page of the answer it returns the url field of the first
\* imageinfo entry of that page (nothing if the page has none).
C17_UrlOrAbsenceNeverRaises ==
    ApiDone =>
        /\ call.result.returned = "value"
        /\ call.arg.kind # "json" => call.result.url = AbsentURL
        /\ (call.arg.kind = "json" /\ call.arg.pages # <<>>) =>
              /\ call.arg.pages[1].id = "-1" => call.result.url = AbsentURL
              /\ (Len(call.arg.pages) = 1 /\ call.arg.pages[1].id # "-1") =>
                    call.result.url = FirstUrl(call.arg.pages[1])

C17_Witness ==
    /\ ApiDone
    /\ call.arg.kind = "json"
    /\ Len(call.arg.pages) = 1
    /\ call.arg.pages[1].id = "7"
    /\ Len(call.arg.pages[1].imageinfo) = 2
    /\ call.result = [returned |-> "value", url |-> "u1"]

\* C15, as claimed: between any two consecutive network requests of a run
\* (category page, file page, image) time.sleep has been called.
C15_DelayBetweenRequests == hist.gap # "none"

\* C16: when os.makedirs fails the run is aborted and has issued no request;
\* whenever a run has issued a request, the directory was created before.
C16_DirectoryBeforeNetwork ==
    /\ hist.madeDir = "failed" =>
          /\ pc = "aborted"
          /\ ~hist.sent
          /\ fetched = <<>> /\ resolveCalls = NoCalls /\ downloadCalls = NoCalls
    /\ hist.sent => hist.madeDir = "ok"
    /\ pc \notin {"start", "aborted"} => hist.madeDir = "ok"

C16_Witness ==
    /\ run = 2
    /\ pc = "aborted"
    /\ hist.madeDir = "failed"
    /\ firstRun.downloaded > 0

\* main has ended, by its return or by an exception, after the walker had
\* returned at least one file page
RunEnded == pc \in {"done", "aborted"} /\ file_pages # <<>>

\* C18, as claimed: when a run that found file pages has ended, the three
\* counters add up to the number of file pages.
C18_TallyCountsEveryItem ==
    RunEnded => downloaded + skipped + failed = Len(file_pages)

\* C19: in one run open(output_path, "wb") is called at most once for each
\* path, and an item whose path holds a file is skipped without opening it.
C19_OpenedAtMostOnce ==
    /\ [](\A f \in Filenames : hist.opens[f] <= 1)
    /\ [][(pc = "items" /\ disk[ItemDestination] # NoFile) =>
             /\ skipped' = skipped + 1
             /\ hist'.opens = hist.opens
             /\ disk' = disk]_vars

C19_Witness ==
    /\ run = 1
    /\ lastItem.outcome = "skipped"
    /\ \E u \in Items :
          /\ u # lastItem.url
          /\ OutputPath(u) = OutputPath(lastItem.url)
          /\ downloadCalls[u] = 1
          /\ hist.opens[OutputPath(u)] = 1

\* the paths where an interrupted download has left a truncated file
Truncated == {f \in Filenames : hist.truncated[f] # NoFile}

\* C20: a truncated file that an interrupted run has left is never replaced,
\* and in every later run an item with that destination is counted as
\* skipped without any request.
C20_TruncatedFileIsKept ==
    [][/\ \A f \in Truncated : disk'[f] = hist.truncated[f]
       /\ (pc = "items" /\ ItemDestination \in Truncated) =>
             /\ skipped' = skipped + 1
             /\ downloaded' = downloaded /\ failed' = failed
             /\ resolveCalls' = resolveCalls /\ downloadCalls' = downloadCalls
             /\ hist' = hist
             /\ disk' = disk]_vars

C20_Witness ==
    /\ run = 2
    /\ lastItem.outcome = "skipped"
    /\ OutputPath(lastItem.url) \in Truncated
    /\ disk[OutputPath(lastItem.url)].state = "partial"
    /\ resolveCalls[lastItem.url] = 0

\* the first "next page" anchor of the page at url resolves to url itself
SelfLinked(url) == NextLink(category[url]) = url

\* C21: a page whose first "next page" anchor resolves to its own URL ends
\* the walk: the step that requests it is the last step of the walker, which
\* returns the links collected up to and on that page, and the page is never
\* requested twice.
C21_SelfLinkEndsWalk ==
    /\ [][(pc = "walk" /\ SelfLinked(current_url)) =>
             /\ pc' = "walked"
             /\ {file_pages'[k] : k \in DOMAIN file_pages'} = found'
             /\ page_count < MaxLog => fetched' = Append(fetched, current_url)]_vars
    /\ [](\A u \in CatURLs : SelfLinked(u) => Count(fetched, u) <= 1)

C21_Witness ==
    /\ ReturnedAfterLastPage
    /\ Len(fetched) = 2
    /\ SelfLinked(fetched[2])
    /\ Count(fetched, fetched[2]) = 1
    /\ Cardinality(found) = 2
    /\ Items = found

\* the characters of a sequence
Chars(s) == {s[k] : k \in DOMAIN s}

\* C22: the result of sanitize_filename holds none of the nine characters
\* < > : " / \ | ? *, whether the title held them as they are or
\* percent-encoded.
C22_NoBadCharacterLeft ==
    SanitizeDone => Chars(call.result) \cap BadChars = {}

C22_Witness ==
    /\ SanitizeDone
    /\ call.arg = <<"a", "%", "3", "C", "%", "5", "c">> \o Png
    /\ call.result = <<"a", "_", "_">> \o Png

====
